---------------------------- MODULE Spec2Model ----------------------------
(***************************************************************************)
(* Model of create_icons.py: the renderer create_lion_icon(size), run one  *)
(* draw call per step on a pixel canvas, and the driver main(), run one    *)
(* statement per step against a small filesystem.                          *)
(*                                                                         *)
(* Spec      one call of create_lion_icon(size), size drawn from Sizes.    *)
(* SpecMain  one run of main() from an arbitrary initial filesystem, with  *)
(*           every I/O step free to fail.                                  *)
(* FairMain  SpecMain with weak fairness of its next-state relation.      *)
(***************************************************************************)
EXTENDS Integers, Sequences, FiniteSets, TLC

VARIABLES
    size,      \* create_lion_icon: the argument
    pc,        \* create_lion_icon: the statement about to run
    img,       \* create_lion_icon: the canvas, <<x, y>> -> colour
    ops,       \* create_lion_icon: the draw calls issued so far, in order
    y_offset,  \* create_lion_icon: index into [-10, 0, 10] of the whisker loops
    err,       \* create_lion_icon: the exception raised, "" when none
    mpc,       \* main: the statement about to run
    dirs,      \* filesystem: the directories that exist
    files,     \* filesystem: path -> content of the files that exist
    files0,    \* filesystem: the files that existed when main() started
    dirs0,     \* filesystem: the directories that existed when main() started
    out,       \* main: the lines printed
    idx,       \* main: index into sizes_and_paths
    icon,      \* main: the loop's canvas
    icon_16,   \* main: the canvas rendered at 16 for favicon.ico
    icon_32,   \* main: the canvas rendered at 32 for favicon.ico
    calls,     \* main: the canvases create_lion_icon has returned, in order
    log        \* main: the I/O steps attempted, in order

renderVars == <<size, pc, img, ops, y_offset, err>>
mainVars == <<mpc, dirs, files, files0, dirs0, out, idx, icon, icon_16, icon_32, calls, log>>
vars == <<size, pc, img, ops, y_offset, err,
          mpc, dirs, files, files0, dirs0, out, idx, icon, icon_16, icon_32, calls, log>>

(***************************************************************************)
(* Bounds                                                                  *)
(***************************************************************************)
MaxSize == 64
Sizes == 1..MaxSize

(***************************************************************************)
(* Colours                                                                 *)
(***************************************************************************)
NoColor == <<>>
\* Variant: a background colour without alpha.
BackgroundColor_Transparent == <<135, 206, 206, 0>>
BackgroundColor == <<135, 206, 206, 255>>
mane_color == <<255, 140, 60, 255>>
face_color == <<255, 220, 100, 255>>
OutlineColor == <<139, 69, 19, 255>>
InnerEarColor == <<255, 180, 120, 255>>
eye_color == <<70, 40, 20, 255>>
HighlightColor == <<255, 255, 255, 255>>

(***************************************************************************)
(* Scaled coordinates.  scale = size / 512 is exact in binary floating     *)
(* point and so is k * scale for the small k used, so int(k * scale) is    *)
(* k * size / 512 truncated toward zero.                                   *)
(***************************************************************************)
Reference == 512

\* Variant: the product is rounded up instead of truncated.
Scaled_Up(k, s) ==
    IF k * s >= 0 THEN (k * s + Reference - 1) \div Reference
    ELSE -((-(k * s) + Reference - 1) \div Reference)

\* Variant: the product is rounded to the nearest integer.
Scaled_Rounded(k, s) ==
    IF k * s >= 0 THEN (2 * k * s + Reference) \div (2 * Reference)
    ELSE -((2 * (-(k * s)) + Reference) \div (2 * Reference))

Scaled(k, s) ==
    IF k * s >= 0 THEN (k * s) \div Reference ELSE -((-(k * s)) \div Reference)

\* Variant: the centre of the reference design, whatever the size.
center_x_Fixed(s) == 256

center_x(s) == s \div 2
\* Variant: half the size, rounded up.
center_y_Up(s) == (s + 1) \div 2

center_y(s) == s \div 2
mane_radius(s) == Scaled(180, s)
face_radius(s) == Scaled(120, s)
ear_size(s) == Scaled(40, s)
ear_offset_x(s) == Scaled(70, s)
ear_offset_y(s) == Scaled(80, s)
inner_ear_size(s) == Scaled(20, s)
eye_size(s) == Scaled(25, s)
eye_offset_x(s) == Scaled(35, s)
eye_offset_y(s) == Scaled(20, s)
highlight_size(s) == Scaled(8, s)
highlight_offset(s) == Scaled(8, s)
nose_size(s) == Scaled(15, s)
nose_offset_y(s) == Scaled(10, s)
mouth_width(s) == Scaled(6, s)
mouth_offset_y(s) == Scaled(35, s)
whisker_length(s) == Scaled(40, s)
whisker_width(s) == Scaled(3, s)
whisker_offset_y(s) == Scaled(10, s)
y_offsets == <<-10, 0, 10>>
y_pos(s, i) == center_y(s) + whisker_offset_y(s) + Scaled(y_offsets[i], s)

(***************************************************************************)
(* The draw calls.  xy is the bounding box <<x0, y0, x1, y1>> of an        *)
(* ellipse or arc and the two end points <<x0, y0, x1, y1>> of a line.     *)
(***************************************************************************)
DrawCall(n, k, box, f, o, w) ==
    [name |-> n, kind |-> k, xy |-> box, fill |-> f, outline |-> o, width |-> w]

\* Variant: the box with its second corner excluded.
Circle_HalfOpen(cx, cy, r) == <<cx - r, cy - r, cx + r - 1, cy + r - 1>>

Circle(cx, cy, r) == <<cx - r, cy - r, cx + r, cy + r>>

Background(s) ==
    DrawCall("background", "new", <<0, 0, s - 1, s - 1>>, BackgroundColor, NoColor, 0)

Mane(s) ==
    DrawCall("mane", "ellipse", Circle(center_x(s), center_y(s), mane_radius(s)),
             mane_color, OutlineColor, Scaled(8, s))

Face(s) ==
    DrawCall("face", "ellipse", Circle(center_x(s), center_y(s), face_radius(s)),
             face_color, OutlineColor, Scaled(6, s))

LeftEar(s) ==
    DrawCall("left ear", "ellipse",
             Circle(center_x(s) - ear_offset_x(s), center_y(s) - ear_offset_y(s), ear_size(s)),
             face_color, OutlineColor, Scaled(4, s))

RightEar(s) ==
    DrawCall("right ear", "ellipse",
             Circle(center_x(s) + ear_offset_x(s), center_y(s) - ear_offset_y(s), ear_size(s)),
             face_color, OutlineColor, Scaled(4, s))

LeftInnerEar(s) ==
    DrawCall("left inner ear", "ellipse",
             Circle(center_x(s) - ear_offset_x(s), center_y(s) - ear_offset_y(s),
                    inner_ear_size(s)),
             InnerEarColor, NoColor, 1)

RightInnerEar(s) ==
    DrawCall("right inner ear", "ellipse",
             Circle(center_x(s) + ear_offset_x(s), center_y(s) - ear_offset_y(s),
                    inner_ear_size(s)),
             InnerEarColor, NoColor, 1)

LeftEye(s) ==
    DrawCall("left eye", "ellipse",
             Circle(center_x(s) - eye_offset_x(s), center_y(s) - eye_offset_y(s), eye_size(s)),
             eye_color, NoColor, 1)

RightEye(s) ==
    DrawCall("right eye", "ellipse",
             Circle(center_x(s) + eye_offset_x(s), center_y(s) - eye_offset_y(s), eye_size(s)),
             eye_color, NoColor, 1)

LeftHighlight(s) ==
    DrawCall("left highlight", "ellipse",
             Circle(center_x(s) - eye_offset_x(s) - highlight_offset(s),
                    center_y(s) - eye_offset_y(s) - highlight_offset(s), highlight_size(s)),
             HighlightColor, NoColor, 1)

RightHighlight(s) ==
    DrawCall("right highlight", "ellipse",
             Circle(center_x(s) + eye_offset_x(s) - highlight_offset(s),
                    center_y(s) - eye_offset_y(s) - highlight_offset(s), highlight_size(s)),
             HighlightColor, NoColor, 1)

Nose(s) ==
    DrawCall("nose", "ellipse",
             Circle(center_x(s), center_y(s) + nose_offset_y(s), nose_size(s)),
             OutlineColor, NoColor, 1)

Mouth(s) ==
    DrawCall("mouth", "arc",
             <<center_x(s) - Scaled(30, s), center_y(s) + mouth_offset_y(s) - Scaled(20, s),
               center_x(s) + Scaled(30, s), center_y(s) + mouth_offset_y(s) + Scaled(20, s)>>,
             OutlineColor, NoColor, mouth_width(s))

LeftWhisker(s, i) ==
    DrawCall("left whisker", "line",
             <<center_x(s) - face_radius(s) - Scaled(10, s), y_pos(s, i),
               center_x(s) - face_radius(s) - whisker_length(s), y_pos(s, i)>>,
             OutlineColor, NoColor, whisker_width(s))

RightWhisker(s, i) ==
    DrawCall("right whisker", "line",
             <<center_x(s) + face_radius(s) + Scaled(10, s), y_pos(s, i),
               center_x(s) + face_radius(s) + whisker_length(s), y_pos(s, i)>>,
             OutlineColor, NoColor, whisker_width(s))

(***************************************************************************)
(* Rasterisation of the draw calls (ImageDraw.ellipse / arc / line on an   *)
(* RGBA image: the ink is copied into the pixel, alpha included).          *)
(*                                                                         *)
(* An ellipse of box width a = x1 - x0 and height b = y1 - y0 is traced in *)
(* doubled coordinates about its centre: one quarter of the boundary is    *)
(* walked from <<a, b % 2>> to <<a % 2, b>>, each step taking the          *)
(* neighbour closest to the curve, and every row is filled between the     *)
(* mirrored boundary points.                                               *)
(***************************************************************************)
Abs(n) == IF n < 0 THEN -n ELSE n

QuarterDelta(a, b, x, y) == Abs(a * a * y * y + b * b * x * x - a * a * b * b)

RECURSIVE QuarterWalk(_, _, _, _)
QuarterWalk(a, b, cx, cy) ==
    IF (cx = a % 2 /\ cy = b) \/ cy > b
    THEN {<<cx, cy>>}
    ELSE LET up == QuarterDelta(a, b, cx, cy + 2)
             diag == QuarterDelta(a, b, cx - 2, cy + 2)
             left == QuarterDelta(a, b, cx - 2, cy)
             best == IF up > diag THEN diag ELSE up
         IN  {<<cx, cy>>} \cup
             (IF cx > 1 /\ best > left THEN QuarterWalk(a, b, cx - 2, cy)
              ELSE IF cx > 1 /\ up > diag THEN QuarterWalk(a, b, cx - 2, cy + 2)
              ELSE QuarterWalk(a, b, cx, cy + 2))

Quarter(a, b) == IF a < 0 \/ b < 0 THEN {} ELSE QuarterWalk(a, b, a, b % 2)

Box(xy) == (xy[1]..xy[3]) \X (xy[2]..xy[4])

\* The pixels of the filled ellipse of box xy.
EllipsePixels(xy) ==
    LET a == xy[3] - xy[1]
        b == xy[4] - xy[2]
        outer == Quarter(a, b)
    IN  {p \in Box(xy) :
            \E q \in outer : /\ q[2] = Abs(2 * (p[2] - xy[2]) - b)
                             /\ Abs(2 * (p[1] - xy[1]) - a) <= q[1]}

\* The pixels of the stroke of width w >= 1 along the ellipse of box xy:
\* those of the ellipse that do not lie strictly inside the boundary of the
\* ellipse drawn w - 1 further in.
RingPixels(xy, w) ==
    LET a == xy[3] - xy[1]
        b == xy[4] - xy[2]
        inner == Quarter(a - 2 * (w - 1), b - 2 * (w - 1))
        Row(p) == {q \in inner : q[2] = Abs(2 * (p[2] - xy[2]) - b)}
    IN  {p \in EllipsePixels(xy) :
            \/ Row(p) = {}
            \/ \E q \in Row(p) : Abs(2 * (p[1] - xy[1]) - a) >= q[1]}

\* start=0, end=180: angles run clockwise from three o'clock, the lower half.
ArcPixels(xy, w) ==
    {p \in RingPixels(xy, w) : 2 * (p[2] - xy[2]) >= xy[4] - xy[2]}

\* Every line of the source is horizontal (both ends at y_pos); both end
\* points are drawn.
LinePixels(xy, w) ==
    LET lo == IF xy[1] <= xy[3] THEN xy[1] ELSE xy[3]
        hi == IF xy[1] <= xy[3] THEN xy[3] ELSE xy[1]
    IN  (lo..hi) \X (IF w <= 1 THEN {xy[2]}
                     ELSE (xy[2] - ((w - 1) \div 2))..(xy[2] + (w \div 2)))

\* Two cases are left open by the drawing library's interface: whether a
\* filled ellipse whose box is a single pixel paints that pixel, and whether
\* an arc of width 0 is drawn one pixel wide or not at all.  Both outcomes
\* are kept.
Outcomes(op) ==
    IF \/ op.kind = "ellipse" /\ op.xy[1] = op.xy[3] /\ op.xy[2] = op.xy[4]
       \/ op.kind = "arc" /\ op.width = 0
    THEN {"drawn", "empty"}
    ELSE {"drawn"}

\* The pixels a draw call fills with op.fill.
FillPixels(op, outcome) ==
    IF outcome = "empty" THEN {}
    ELSE CASE op.kind = "new" -> Box(op.xy)
           [] op.kind = "ellipse" -> EllipsePixels(op.xy)
           [] op.kind = "arc" -> ArcPixels(op.xy, IF op.width = 0 THEN 1 ELSE op.width)
           [] op.kind = "line" -> LinePixels(op.xy, op.width)

\* The pixels a draw call then strokes with op.outline: none without an
\* outline colour, with the fill's colour as outline, or with width 0.
OutlinePixels(op) ==
    IF op.kind = "ellipse" /\ op.outline # NoColor /\ op.outline # op.fill /\ op.width # 0
    THEN RingPixels(op.xy, op.width)
    ELSE {}

\* Image.new rejects a negative side; ellipse and arc reject a box whose
\* second corner lies before the first.
WellFormed(op) ==
    CASE op.kind = "new" -> op.xy[3] >= -1 /\ op.xy[4] >= -1
      [] op.kind \in {"ellipse", "arc"} -> op.xy[3] >= op.xy[1] /\ op.xy[4] >= op.xy[2]
      [] op.kind = "line" -> TRUE

Pixels(s) == (0..(s - 1)) \X (0..(s - 1))

\* Pixels outside the canvas are clipped.
Paint(canvas, op, outcome) ==
    LET filled == FillPixels(op, outcome)
        stroked == OutlinePixels(op)
    IN  [p \in DOMAIN canvas |->
            IF p \in stroked THEN op.outline
            ELSE IF p \in filled THEN op.fill
            ELSE canvas[p]]

NoImage == [p \in {} |-> NoColor]

(***************************************************************************)
(* create_lion_icon(size), one draw call per step                          *)
(***************************************************************************)
\* Variant: a call whose box is a single pixel is skipped.
Draw_SkipEmpty(op, next) ==
    IF op.xy[1] = op.xy[3] /\ op.xy[2] = op.xy[4]
    THEN /\ pc' = next
         /\ UNCHANGED <<img, ops, err>>
    ELSE IF WellFormed(op)
    THEN /\ \E outcome \in Outcomes(op) : img' = Paint(img, op, outcome)
         /\ ops' = Append(ops, op)
         /\ pc' = next
         /\ err' = err
    ELSE /\ err' = "ValueError"
         /\ pc' = "raised"
         /\ UNCHANGED <<img, ops>>

\* One draw call on the canvas: it raises, or paints and moves on.
Draw(op, next) ==
    IF WellFormed(op)
    THEN /\ \E outcome \in Outcomes(op) : img' = Paint(img, op, outcome)
         /\ ops' = Append(ops, op)
         /\ pc' = next
         /\ err' = err
    ELSE /\ err' = "ValueError"
         /\ pc' = "raised"
         /\ UNCHANGED <<img, ops>>

NewImage ==
    /\ pc = "start"
    /\ IF WellFormed(Background(size))
       THEN /\ img' = [p \in Pixels(size) |-> BackgroundColor]
            /\ ops' = <<Background(size)>>
            /\ pc' = "mane"
            /\ err' = err
       ELSE /\ err' = "ValueError"
            /\ pc' = "raised"
            /\ UNCHANGED <<img, ops>>
    /\ UNCHANGED <<size, y_offset>>
    /\ UNCHANGED mainVars

DrawMane ==
    /\ pc = "mane"
    /\ Draw(Mane(size), "face")
    /\ UNCHANGED <<size, y_offset>>
    /\ UNCHANGED mainVars

DrawFace ==
    /\ pc = "face"
    /\ Draw(Face(size), "left ear")
    /\ UNCHANGED <<size, y_offset>>
    /\ UNCHANGED mainVars

DrawLeftEar ==
    /\ pc = "left ear"
    /\ Draw(LeftEar(size), "right ear")
    /\ UNCHANGED <<size, y_offset>>
    /\ UNCHANGED mainVars

DrawRightEar ==
    /\ pc = "right ear"
    /\ Draw(RightEar(size), "left inner ear")
    /\ UNCHANGED <<size, y_offset>>
    /\ UNCHANGED mainVars

DrawLeftInnerEar ==
    /\ pc = "left inner ear"
    /\ Draw(LeftInnerEar(size), "right inner ear")
    /\ UNCHANGED <<size, y_offset>>
    /\ UNCHANGED mainVars

DrawRightInnerEar ==
    /\ pc = "right inner ear"
    /\ Draw(RightInnerEar(size), "left eye")
    /\ UNCHANGED <<size, y_offset>>
    /\ UNCHANGED mainVars

DrawLeftEye ==
    /\ pc = "left eye"
    /\ Draw(LeftEye(size), "right eye")
    /\ UNCHANGED <<size, y_offset>>
    /\ UNCHANGED mainVars

DrawRightEye ==
    /\ pc = "right eye"
    /\ Draw(RightEye(size), "left highlight")
    /\ UNCHANGED <<size, y_offset>>
    /\ UNCHANGED mainVars

DrawLeftHighlight ==
    /\ pc = "left highlight"
    /\ Draw(LeftHighlight(size), "right highlight")
    /\ UNCHANGED <<size, y_offset>>
    /\ UNCHANGED mainVars

DrawRightHighlight ==
    /\ pc = "right highlight"
    /\ Draw(RightHighlight(size), "nose")
    /\ UNCHANGED <<size, y_offset>>
    /\ UNCHANGED mainVars

DrawNose ==
    /\ pc = "nose"
    /\ Draw(Nose(size), "mouth")
    /\ UNCHANGED <<size, y_offset>>
    /\ UNCHANGED mainVars

DrawMouth ==
    /\ pc = "mouth"
    /\ Draw(Mouth(size), "left whiskers")
    /\ UNCHANGED <<size, y_offset>>
    /\ UNCHANGED mainVars

DrawLeftWhisker ==
    /\ pc = "left whiskers"
    /\ Draw(LeftWhisker(size, y_offset),
            IF y_offset < Len(y_offsets) THEN "left whiskers" ELSE "right whiskers")
    /\ y_offset' = IF y_offset < Len(y_offsets) THEN y_offset + 1 ELSE 1
    /\ UNCHANGED size
    /\ UNCHANGED mainVars

DrawRightWhisker ==
    /\ pc = "right whiskers"
    /\ Draw(RightWhisker(size, y_offset),
            IF y_offset < Len(y_offsets) THEN "right whiskers" ELSE "return")
    /\ y_offset' = IF y_offset < Len(y_offsets) THEN y_offset + 1 ELSE 1
    /\ UNCHANGED size
    /\ UNCHANGED mainVars

Return ==
    /\ pc = "return"
    /\ pc' = "returned"
    /\ UNCHANGED <<size, img, ops, y_offset, err>>
    /\ UNCHANGED mainVars

\* The whole draw list of one call, as main() receives it.
DrawList(s) ==
    <<Background(s), Mane(s), Face(s), LeftEar(s), RightEar(s),
      LeftInnerEar(s), RightInnerEar(s), LeftEye(s), RightEye(s),
      LeftHighlight(s), RightHighlight(s), Nose(s), Mouth(s),
      LeftWhisker(s, 1), LeftWhisker(s, 2), LeftWhisker(s, 3),
      RightWhisker(s, 1), RightWhisker(s, 2), RightWhisker(s, 3)>>

(***************************************************************************)
(* main(): the filesystem, the files it writes and the canvases it renders *)
(***************************************************************************)
IconsDir == "client/assets/icons"

\* os.makedirs creates the leaf and every missing parent.
Makedirs(leaf) ==
    IF leaf = "client/assets/icons" THEN {"client", "client/assets", "client/assets/icons"}
    ELSE IF leaf = "client/assets" THEN {"client", "client/assets"}
    ELSE {leaf}

\* Variant: the two favicons share one path.
sizes_and_paths_Duplicate ==
    << <<192, "client/assets/icons/icon-192.png">>,
       <<512, "client/assets/icons/icon-512.png">>,
       <<32, "client/favicon-32x32.png">>,
       <<16, "client/favicon-32x32.png">> >>

sizes_and_paths ==
    << <<192, "client/assets/icons/icon-192.png">>,
       <<512, "client/assets/icons/icon-512.png">>,
       <<32, "client/favicon-32x32.png">>,
       <<16, "client/favicon-16x16.png">> >>

IcoPath == "client/favicon.ico"
IcoSizes == <<16, 32>>

Paths == {sizes_and_paths[i][2] : i \in 1..Len(sizes_and_paths)} \cup {IcoPath}

Parent(path) ==
    IF path \in {"client/assets/icons/icon-192.png", "client/assets/icons/icon-512.png"}
    THEN "client/assets/icons"
    ELSE "client"

\* The canvas a call of create_lion_icon(s) returns; n numbers the calls, so
\* that two canvases of the same size stay two objects.
create_lion_icon(s, n) == [id |-> n, size |-> s, ops |-> DrawList(s)]

NoCanvas == [id |-> 0, size |-> 0, ops |-> <<>>]

\* One image of a written file: its side, the canvas it was made from and
\* whether it is that canvas itself or a resampled copy of it.
Frame(im, s) ==
    [size |-> s, source |-> im.id, ops |-> im.ops, resampled |-> (s # im.size)]

SavePNG(im) == [format |-> "PNG", frames |-> <<Frame(im, im.size)>>]

\* Image.save(format='ICO', sizes=...) on the single image im: the sizes
\* larger than im (or than 256) are dropped, and every remaining size is
\* produced from im, by resampling where the size differs.
IcoKeep(im, s) == s <= im.size /\ s <= 256

SaveICO(im, sizes) ==
    LET kept == SelectSeq(sizes, LAMBDA s : IcoKeep(im, s))
    IN  [format |-> "ICO", frames |-> [i \in 1..Len(kept) |-> Frame(im, kept[i])]]

OldFile == [format |-> "old", frames |-> <<>>]
Truncated == [format |-> "truncated", frames |-> <<>>]

Without(f, path) == [q \in (DOMAIN f) \ {path} |-> f[q]]
With(f, path, content) ==
    [q \in (DOMAIN f) \cup {path} |-> IF q = path THEN content ELSE f[q]]

\* What a failed save can leave at its path: the file untouched (the open
\* failed), cut short, or removed again.  No other path is touched.
SaveFailed(f, path) ==
    {f, Without(f, path)} \cup
    (IF Parent(path) \in dirs THEN {With(f, path, Truncated)} ELSE {})

Event(o, path, r) == [op |-> o, path |-> path, ok |-> r]

\* Variant: the failed statement is run again.
Raise_Retry == mpc' = mpc

\* An uncaught exception ends main(); nothing runs after it.
Raise == mpc' = "raised"

\* line 122
MakeDirectories ==
    /\ mpc = "makedirs"
    /\ \/ /\ dirs' = dirs \cup Makedirs(IconsDir)
          /\ log' = Append(log, Event("makedirs", IconsDir, TRUE))
          /\ mpc' = "for"
       \/ /\ IconsDir \notin dirs
          /\ \E made \in {{}, Makedirs("client"), Makedirs("client/assets")} :
                dirs' = dirs \cup made
          /\ log' = Append(log, Event("makedirs", IconsDir, FALSE))
          /\ Raise
    /\ UNCHANGED <<files, files0, dirs0, out, idx, icon, icon_16, icon_32, calls>>
    /\ UNCHANGED renderVars

\* lines 132-134
LoopRender ==
    /\ mpc = "for"
    /\ idx <= Len(sizes_and_paths)
    /\ out' = Append(out, <<"Creating icon", sizes_and_paths[idx][1], sizes_and_paths[idx][2]>>)
    /\ icon' = create_lion_icon(sizes_and_paths[idx][1], Len(calls) + 1)
    /\ calls' = Append(calls, icon')
    /\ mpc' = "save"
    /\ UNCHANGED <<dirs, files, files0, dirs0, idx, icon_16, icon_32, log>>
    /\ UNCHANGED renderVars

\* line 135
LoopSave ==
    /\ mpc = "save"
    /\ LET path == sizes_and_paths[idx][2]
       IN  \/ /\ Parent(path) \in dirs
              /\ files' = With(files, path, SavePNG(icon))
              /\ log' = Append(log, Event("save", path, TRUE))
              /\ idx' = idx + 1
              /\ mpc' = IF idx < Len(sizes_and_paths) THEN "for" ELSE "ico 16"
           \/ /\ files' \in SaveFailed(files, path)
              /\ log' = Append(log, Event("save", path, FALSE))
              /\ idx' = idx
              /\ Raise
    /\ UNCHANGED <<dirs, files0, dirs0, out, icon, icon_16, icon_32, calls>>
    /\ UNCHANGED renderVars

\* lines 138-139
RenderIcon16 ==
    /\ mpc = "ico 16"
    /\ out' = Append(out, <<"Creating favicon.ico">>)
    /\ icon_16' = create_lion_icon(16, Len(calls) + 1)
    /\ calls' = Append(calls, icon_16')
    /\ mpc' = "ico 32"
    /\ UNCHANGED <<dirs, files, files0, dirs0, idx, icon, icon_32, log>>
    /\ UNCHANGED renderVars

\* line 140
RenderIcon32 ==
    /\ mpc = "ico 32"
    /\ icon_32' = create_lion_icon(32, Len(calls) + 1)
    /\ calls' = Append(calls, icon_32')
    /\ mpc' = "save ico"
    /\ UNCHANGED <<dirs, files, files0, dirs0, out, idx, icon, icon_16, log>>
    /\ UNCHANGED renderVars

\* line 143
SaveIco ==
    /\ mpc = "save ico"
    /\ \/ /\ Parent(IcoPath) \in dirs
          /\ files' = With(files, IcoPath, SaveICO(icon_32, IcoSizes))
          /\ log' = Append(log, Event("save", IcoPath, TRUE))
          /\ mpc' = "print"
       \/ /\ files' \in SaveFailed(files, IcoPath)
          /\ log' = Append(log, Event("save", IcoPath, FALSE))
          /\ Raise
    /\ UNCHANGED <<dirs, files0, dirs0, out, idx, icon, icon_16, icon_32, calls>>
    /\ UNCHANGED renderVars

\* line 145
PrintSuccess ==
    /\ mpc = "print"
    /\ out' = Append(out, <<"All icons created successfully!">>)
    /\ mpc' = "done"
    /\ UNCHANGED <<dirs, files, files0, dirs0, idx, icon, icon_16, icon_32, calls, log>>
    /\ UNCHANGED renderVars

(***************************************************************************)
(* Specifications                                                          *)
(***************************************************************************)
RenderIdle ==
    /\ size = 0
    /\ pc = "idle"
    /\ img = NoImage
    /\ ops = <<>>
    /\ y_offset = 1
    /\ err = ""

MainIdle ==
    /\ mpc = "idle"
    /\ dirs = {}
    /\ files = [q \in {} |-> OldFile]
    /\ files0 = {}
    /\ dirs0 = {}
    /\ out = <<>>
    /\ idx = 1
    /\ icon = NoCanvas
    /\ icon_16 = NoCanvas
    /\ icon_32 = NoCanvas
    /\ calls = <<>>
    /\ log = <<>>

\* A call create_lion_icon(size) about to run its first statement.
Init ==
    /\ size \in Sizes
    /\ pc = "start"
    /\ img = NoImage
    /\ ops = <<>>
    /\ y_offset = 1
    /\ err = ""
    /\ MainIdle

Next ==
    \/ NewImage
    \/ DrawMane
    \/ DrawFace
    \/ DrawLeftEar
    \/ DrawRightEar
    \/ DrawLeftInnerEar
    \/ DrawRightInnerEar
    \/ DrawLeftEye
    \/ DrawRightEye
    \/ DrawLeftHighlight
    \/ DrawRightHighlight
    \/ DrawNose
    \/ DrawMouth
    \/ DrawLeftWhisker
    \/ DrawRightWhisker
    \/ Return

Spec == Init /\ [][Next]_vars

\* The filesystems main() can start in: any of the directories it creates
\* may exist already, and so may any file whose directory exists.
InitialDirs == {{}, Makedirs("client"), Makedirs("client/assets"), Makedirs(IconsDir)}

InitMain ==
    /\ mpc = "makedirs"
    /\ dirs0 \in InitialDirs
    /\ dirs = dirs0
    /\ files0 \in SUBSET {q \in Paths : Parent(q) \in dirs}
    /\ files = [q \in files0 |-> OldFile]
    /\ out = <<>>
    /\ idx = 1
    /\ icon = NoCanvas
    /\ icon_16 = NoCanvas
    /\ icon_32 = NoCanvas
    /\ calls = <<>>
    /\ log = <<>>
    /\ RenderIdle

NextMain ==
    \/ MakeDirectories
    \/ LoopRender
    \/ LoopSave
    \/ RenderIcon16
    \/ RenderIcon32
    \/ SaveIco
    \/ PrintSuccess

SpecMain == InitMain /\ [][NextMain]_vars

\* main() is one sequential thread: a statement that can run does run.
FairMain == InitMain /\ [][NextMain]_vars /\ WF_vars(NextMain)

(***************************************************************************)
(* Properties of create_lion_icon                                          *)
(***************************************************************************)
Corners(s) == {<<0, 0>>, <<s - 1, 0>>, <<0, s - 1>>, <<s - 1, s - 1>>}

\* C1: once the canvas exists it has exactly size x size pixels and every
\* pixel has alpha 255, after each draw call and at the return.
C1_OpaqueCanvas ==
    ops # <<>> =>
        /\ DOMAIN img = Pixels(size)
        /\ Cardinality(DOMAIN img) = size * size
        /\ \A p \in DOMAIN img : Len(img[p]) = 4 /\ img[p][4] = 255

C1_Witness ==
    /\ pc = "returned"
    /\ size > 1
    /\ \E p \in DOMAIN img : img[p] # BackgroundColor /\ img[p][4] = 255

\* C2 as stated: for every size >= 1 the four corner pixels of the returned
\* canvas hold the background colour.
C2_CornersEverySize ==
    pc = "returned" => \A p \in Corners(size) : img[p] = BackgroundColor

\* C2 as amended: for every size >= 3 the four corner pixels hold the
\* background colour after every draw call and at the return.
C2_CornersFromThree ==
    (ops # <<>> /\ size >= 3) => \A p \in Corners(size) : img[p] = BackgroundColor

\* The mane reaches the edge of the canvas and still leaves the corners.
C2_Witness ==
    /\ pc = "returned"
    /\ size >= 3
    /\ \E p \in DOMAIN img : (p[1] = 0 \/ p[2] = size - 1) /\ img[p] = mane_color
    /\ \A p \in Corners(size) : img[p] = BackgroundColor

\* C5: no call raises; every ellipse and arc box issued has x0 <= x1 and
\* y0 <= y1 and every stroke width is a non-negative integer.
C5_NoError ==
    /\ pc # "raised"
    /\ err = ""
    /\ \A i \in DOMAIN ops :
          /\ ops[i].kind \in {"ellipse", "arc"} =>
                ops[i].xy[1] <= ops[i].xy[3] /\ ops[i].xy[2] <= ops[i].xy[4]
          /\ ops[i].width \in Nat

\* A size at which every radius and width truncates to 0 reaches the return.
C5_Witness ==
    /\ pc = "returned"
    /\ mane_radius(size) = 0
    /\ Len(ops) = 19
    /\ \A i \in 2..Len(ops) : ops[i].xy[1] = ops[i].xy[3] /\ ops[i].xy[2] = ops[i].xy[4]
    /\ ops[2].width = 0 /\ ops[13].width = 0 /\ ops[19].width = 0

\* The base constants of the design (radii, offsets, widths), and 256 for
\* the centre.
BaseConstants == {180, 8, 120, 6, 40, 70, 80, 4, 20, 25, 35, 15, 10, 30, 3, -10, 0}

Rendered(k, s) == IF k = 256 THEN center_x(s) ELSE Scaled(k, s)

\* C7: the values rendered at the size of this call and at any other size
\* differ from exact linear scaling by less than one pixel at the larger size.
C7_SelfSimilar ==
    pc = "returned" =>
        \A s2 \in Sizes : \A k \in BaseConstants \cup {256} :
            Abs(size * Rendered(k, s2) - s2 * Rendered(k, size))
                < (IF size > s2 THEN size ELSE s2)

\* Truncation is visible: the mane radius is 5 at 16 and 11, not 10, at 32.
C7_Witness ==
    /\ pc = "returned"
    /\ size = 16
    /\ ops[2].xy = Circle(8, 8, 5)
    /\ mane_radius(32) = 11

FixedOrder ==
    <<"background", "mane", "face", "left ear", "right ear",
      "left inner ear", "right inner ear", "left eye", "right eye",
      "left highlight", "right highlight", "nose", "mouth",
      "left whisker", "left whisker", "left whisker",
      "right whisker", "right whisker", "right whisker">>

\* C9: at every size the draw calls issued so far are a prefix of the fixed
\* order, the canvas is returned only after all of them, and the pixels a
\* call draws hold that call's colours whatever was drawn there before.
C9_FixedOrder ==
    /\ Len(ops) <= Len(FixedOrder)
    /\ \A i \in DOMAIN ops : ops[i].name = FixedOrder[i]
    /\ pc \in {"return", "returned"} => Len(ops) = Len(FixedOrder)
    /\ (ops # <<>> /\ Outcomes(ops[Len(ops)]) = {"drawn"}) =>
          LET last == ops[Len(ops)]
          IN  /\ \A p \in OutlinePixels(last) \cap DOMAIN img : img[p] = last.outline
              /\ \A p \in (FillPixels(last, "drawn") \ OutlinePixels(last)) \cap DOMAIN img :
                    img[p] = last.fill

\* The nose is drawn over the face, which was drawn over the mane.
C9_Witness ==
    /\ pc = "returned"
    /\ Len(ops) = 19
    /\ nose_size(size) > 0
    /\ img[<<center_x(size), center_y(size) + nose_offset_y(size) + nose_size(size)>>]
          = OutlineColor

\* C10: every coordinate passed to a draw call lies in 0 .. size-1; every
\* whisker starts at or outside the face radius and ends within the mane
\* radius of the centre.
C10_InsideCanvas ==
    \A i \in DOMAIN ops :
        /\ \A j \in 1..4 : ops[i].xy[j] \in 0..(size - 1)
        /\ ops[i].kind = "line" =>
              /\ Abs(ops[i].xy[1] - center_x(size)) >= face_radius(size)
              /\ (ops[i].xy[3] - center_x(size)) * (ops[i].xy[3] - center_x(size))
                   + (ops[i].xy[4] - center_y(size)) * (ops[i].xy[4] - center_y(size))
                 <= mane_radius(size) * mane_radius(size)

\* A whisker of positive length, ending exactly on the mane radius.
C10_Witness ==
    /\ pc = "returned"
    /\ whisker_length(size) > 0
    /\ ops[19].xy[3] - center_x(size) = mane_radius(size)

(***************************************************************************)
(* Properties of main()                                                    *)
(***************************************************************************)
FivePaths ==
    <<"client/assets/icons/icon-192.png", "client/assets/icons/icon-512.png",
      "client/favicon-32x32.png", "client/favicon-16x16.png", "client/favicon.ico">>

StartedEmpty == dirs0 = {} /\ files0 = {}

C3_Written ==
    StartedEmpty =>
        /\ Cardinality({i \in DOMAIN log : log[i].op = "makedirs"}) <= 1
        /\ \A i \in DOMAIN log :
              (log[i].op = "save" /\ log[i].ok) =>
                  /\ i > 1
                  /\ log[1] = Event("makedirs", "client/assets/icons", TRUE)
                  /\ Parent(log[i].path) \in dirs
                  /\ log[i].path = FivePaths[i - 1]
                  /\ \A j \in DOMAIN log : log[j].path = log[i].path => j = i
        /\ DOMAIN files \subseteq {log[i].path : i \in DOMAIN log}
        /\ mpc = "raised" => (log # <<>> /\ ~ log[Len(log)].ok)
        /\ mpc = "done" =>
              /\ Len(log) = 6
              /\ \A i \in DOMAIN log : log[i].ok
              /\ DOMAIN files = {FivePaths[i] : i \in 1..5}
              /\ Cardinality(DOMAIN files) = 5
              /\ \A q \in DOMAIN files : files[q].format \in {"PNG", "ICO"}

\* C3: a run of main() from an empty directory terminates; when no I/O step
\* failed it ends with exactly the five files, each path written once, and
\* every write follows the one makedirs step that created its directory.
C3_FiveFiles == []C3_Written /\ <>(mpc \in {"done", "raised"})

C3_Witness ==
    /\ StartedEmpty
    /\ mpc = "done"
    /\ Len(log) = 6
    /\ DOMAIN files = {FivePaths[i] : i \in 1..5}

\* C4 as stated: the 16x16 frame of favicon.ico is the canvas rendered at 16
\* and its 32x32 frame the canvas rendered at 32, and every canvas main()
\* renders is handed to a file write.
C4_IcoEmbedsBothRenders ==
    mpc = "done" =>
        LET frames == files[IcoPath].frames
            Embedded(im) == \E i \in DOMAIN frames :
                               /\ frames[i].size = im.size
                               /\ frames[i].source = im.id
                               /\ ~ frames[i].resampled
        IN  /\ Embedded(icon_16)
            /\ Embedded(icon_32)
            /\ \A c \in DOMAIN calls :
                  \E q \in DOMAIN files : \E i \in DOMAIN files[q].frames :
                      files[q].frames[i].source = calls[c].id

RendersBeforeStep(i) == IF i = 1 THEN 0 ELSE IF i <= 5 THEN i - 1 ELSE 6

C6_Stopped ==
    \A i \in DOMAIN log :
        ~ log[i].ok =>
            /\ i = Len(log)
            /\ mpc = "raised"
            /\ \A n \in DOMAIN out : out[n] # <<"All icons created successfully!">>
            /\ Len(calls) = RendersBeforeStep(i)
            /\ \A j \in 2..(i - 1) :
                  /\ log[j].path \in DOMAIN files
                  /\ files[log[j].path] = SavePNG(calls[j - 1])

\* C6: a failed makedirs or save is the last step main() takes: it is not
\* retried, nothing is rendered, written or printed after it, and the files
\* written before it keep their content.
C6_FatalFailure == []C6_Stopped /\ [][mpc = "raised" => UNCHANGED vars]_vars

\* The third write fails after two files were written.
C6_Witness ==
    /\ mpc = "raised"
    /\ Len(log) = 4
    /\ ~ log[4].ok
    /\ files["client/assets/icons/icon-512.png"] = SavePNG(calls[2])

\* C8: the mane of every canvas main() renders is the ellipse centred on
\* (size//2, size//2) of radius int(180*size/512) with outline width
\* int(8*size/512): centre (256,256), radius 180, width 8 at 512, and
\* radius 5 at 16.
C8_Mane ==
    \A i \in DOMAIN calls :
        LET s == calls[i].size
            mane == calls[i].ops[2]
        IN  /\ mane.name = "mane" /\ mane.kind = "ellipse"
            /\ mane.xy = <<s \div 2 - (180 * s) \div 512, s \div 2 - (180 * s) \div 512,
                           s \div 2 + (180 * s) \div 512, s \div 2 + (180 * s) \div 512>>
            /\ mane.width = (8 * s) \div 512
            /\ s = 512 => mane.xy = <<256 - 180, 256 - 180, 256 + 180, 256 + 180>>
                          /\ mane.width = 8
            /\ s = 16 => mane.xy = <<8 - 5, 8 - 5, 8 + 5, 8 + 5>>

C8_Witness ==
    /\ \E i \in DOMAIN calls : calls[i].size = 512 /\ calls[i].ops[2].width = 8
    /\ \E i \in DOMAIN calls : calls[i].size = 16 /\ calls[i].ops[2].xy[1] = 3

=============================================================================
